---- MODULE Spec2Model ----
(***************************************************************************)
(* State-machine model of the game logic of src/snake.py (class Snake).    *)
(*                                                                         *)
(* One action, Update, models one call of Snake.update() by the host loop  *)
(* with the inputs the frame delivers: the held direction keys, the        *)
(* on-screen button hit by a pointer press, and the restart key.  Every    *)
(* method update() calls is an operator from a session record to the set   *)
(* of session records the method can leave (a set, because fruit placement *)
(* draws random cells).                                                    *)
(*                                                                         *)
(* The play field is scaled down (WIDTH, HEIGHT, StartOffset) so that the  *)
(* reachable states are finite and small; the reserved strips              *)
(* HEIGHT_SCORE and HEIGHT_CONTROLS and all tables keep the source values. *)
(* Not modelled: drawing, sound, logging, the debug toggle (KEY_D), the    *)
(* log key (KEY_L) and the quit key (KEY_Q ends the process).              *)
(***************************************************************************)
EXTENDS Integers, Sequences, FiniteSets, TLC

(***************************************************************************)
(* Bounds of the model.                                                    *)
(***************************************************************************)
WIDTH == 4
HEIGHT == 22
StartOffset == 1
MaxFrame == 30
LateCycles == 8
LateFrames == 18
GrownFrames == 20

(***************************************************************************)
(* Program constants.                                                      *)
(***************************************************************************)
HEIGHT_SCORE == 6
HEIGHT_CONTROLS == HEIGHT_SCORE * 2

None == <<>>
Point(x, y) == <<x, y>>

UP == Point(0, -1)
DOWN == Point(0, 1)
RIGHT == Point(1, 0)
LEFT == Point(-1, 0)

START == Point(StartOffset, StartOffset + HEIGHT_SCORE)

SCORE_SPEED ==
  (0 :> 18) @@ (2 :> 16) @@ (5 :> 14) @@ (9 :> 12) @@ (12 :> 10) @@
  (17 :> 9) @@ (23 :> 8) @@ (30 :> 7) @@ (38 :> 6) @@ (49 :> 5) @@
  (60 :> 4) @@ (75 :> 3) @@ (88 :> 2) @@ (99 :> 1)

DEFAULT_SPEED == 20
MAX_TIME_BONUS == 300
MAX_SECONDS_PER_POINT == 3
COLLISION_WITH_WALLS == FALSE

SPEED_TO_FRAME_MAPPING ==
  (20 :> <<8, 7, 7>>) @@ (19 :> <<7, 7, 7>>) @@ (18 :> <<7, 7, 6>>) @@
  (17 :> <<7, 6, 6>>) @@ (16 :> <<6, 6, 6>>) @@ (15 :> <<6, 6, 5>>) @@
  (14 :> <<6, 5, 5>>) @@ (13 :> <<5, 5, 5>>) @@ (12 :> <<5, 5, 4>>) @@
  (11 :> <<5, 4, 4>>) @@ (10 :> <<4, 4, 4>>) @@ (9 :> <<4, 4, 3>>) @@
  (8 :> <<4, 3, 3>>) @@ (7 :> <<3, 3, 3>>) @@ (6 :> <<3, 3, 2>>) @@
  (5 :> <<3, 2, 2>>) @@ (4 :> <<2, 2, 2>>) @@ (3 :> <<2, 2, 1>>) @@
  (2 :> <<2, 1, 1>>) @@ (1 :> <<1, 1, 1>>)

(***************************************************************************)
(* Inputs of one frame.                                                    *)
(***************************************************************************)
NoButton == "none"
Buttons == {"up", "down", "left", "right"}
\* the direction key that wins the if/elif chain of update_direction
Keys == Buttons \cup {NoButton}
\* the hit box a pointer press falls into (NoButton: no press, or a miss)
Clicks == Buttons \cup {NoButton}

(***************************************************************************)
(* Sequence helpers (collections.deque, set()).                            *)
(***************************************************************************)
Elems(q) == {q[i] : i \in 1..Len(q)}

appendleft(q, e) == <<e>> \o q

pop(q) == SubSeq(q, 1, Len(q) - 1)

rotate(q) == <<q[Len(q)]>> \o SubSeq(q, 1, Len(q) - 1)

min(a, b) == IF a < b THEN a ELSE b

max(a, b) == IF a > b THEN a ELSE b

VARIABLES
  snake, direction, popped_point, popped_point_1, popped_point_2,
  apple, melon, death, melons, apples, score, time_bonus, last_eaten_frame,
  speed, speed_frames, current_frame_speed, frame_count, last_update_before,
  mouse_pressed_button,
  \* observers of the last update, not program state
  generated, stepped, eaten, restarted, command,
  \* observers of the history: the cells the head has been on (latest
  \* first), the direction of the last step, the frame gaps between the
  \* steps since the last change of speed tier (at most four, latest
  \* last), and the restart input of the last update
  path, last_step_direction, gaps, restart_signal

vars ==
  <<snake, direction, popped_point, popped_point_1, popped_point_2,
    apple, melon, death, melons, apples, score, time_bonus, last_eaten_frame,
    speed, speed_frames, current_frame_speed, frame_count, last_update_before,
    mouse_pressed_button, generated, stepped, eaten, restarted, command,
    path, last_step_direction, gaps, restart_signal>>

\* the session object as a record
self ==
  [snake |-> snake, direction |-> direction, popped_point |-> popped_point,
   popped_point_1 |-> popped_point_1, popped_point_2 |-> popped_point_2,
   apple |-> apple, melon |-> melon, death |-> death, melons |-> melons,
   apples |-> apples, score |-> score, time_bonus |-> time_bonus,
   last_eaten_frame |-> last_eaten_frame, speed |-> speed,
   speed_frames |-> speed_frames, current_frame_speed |-> current_frame_speed,
   frame_count |-> frame_count, last_update_before |-> last_update_before,
   mouse_pressed_button |-> mouse_pressed_button, generated |-> generated,
   stepped |-> stepped, eaten |-> eaten, restarted |-> restarted,
   command |-> command, path |-> path,
   last_step_direction |-> last_step_direction, gaps |-> gaps,
   restart_signal |-> restart_signal]

(***************************************************************************)
(* Fruit placement.                                                        *)
(***************************************************************************)
IsMilestone(n) == n \in DOMAIN SCORE_SPEED

melon_points(x, y) ==
  <<Point(x, y), Point(x + 1, y), Point(x, y + 1), Point(x + 1, y + 1)>>

\* the loop starts on the head, so it always draws; it ends on the first
\* drawn cell that is not a cell of the snake
generate_apple(s) ==
  LET snake_pixels == Elems(s.snake) IN
  { [s EXCEPT !.apple = Point(x, y), !.generated = "apple"] :
      <<x, y>> \in { c \in (0..(WIDTH - 1)) \X
                             ((HEIGHT_SCORE + 1)..(HEIGHT - HEIGHT_CONTROLS - 1)) :
                       Point(c[1], c[2]) \notin snake_pixels } }

\* mutant: the anchor column is drawn up to WIDTH - 1, as for an apple
generate_melon_wide(s) ==
  LET snake_pixels == Elems(s.snake) IN
  { [s EXCEPT !.melon = melon_points(c[1], c[2]), !.generated = "melon"] :
      c \in { c \in (0..(WIDTH - 1)) \X
                    ((HEIGHT_SCORE + 2)..(HEIGHT - HEIGHT_CONTROLS - 2)) :
                Elems(melon_points(c[1], c[2])) \cap snake_pixels = {} } }

generate_melon(s) ==
  LET snake_pixels == Elems(s.snake) IN
  { [s EXCEPT !.melon = melon_points(c[1], c[2]), !.generated = "melon"] :
      c \in { c \in (0..(WIDTH - 2)) \X
                    ((HEIGHT_SCORE + 2)..(HEIGHT - HEIGHT_CONTROLS - 2)) :
                Elems(melon_points(c[1], c[2])) \cap snake_pixels = {} } }

generate_fruit(s) ==
  IF IsMilestone(s.melons + s.apples)
  THEN generate_melon(s)
  ELSE generate_apple(s)

(***************************************************************************)
(* reset                                                                   *)
(***************************************************************************)
\* mutant: the recent-pop slots are not cleared
reset_keeps_pops(s) ==
  LET s1 == [s EXCEPT !.direction = RIGHT,
                      !.snake = <<START>>,
                      !.apple = None,
                      !.death = FALSE,
                      !.melons = 0,
                      !.apples = 0,
                      !.score = 0,
                      !.time_bonus = 0,
                      !.last_eaten_frame = 0]
  IN { [s2 EXCEPT !.speed = DEFAULT_SPEED,
                  !.speed_frames = SPEED_TO_FRAME_MAPPING[DEFAULT_SPEED],
                  !.current_frame_speed = SPEED_TO_FRAME_MAPPING[DEFAULT_SPEED][1],
                  !.frame_count = 0,
                  !.last_update_before = 0,
                  !.mouse_pressed_button = NoButton,
                  !.stepped = FALSE,
                  !.eaten = "none",
                  !.command = NoButton,
                  !.path = <<START>>,
                  !.last_step_direction = None,
                  !.gaps = <<>>,
                  !.restarted = TRUE] : s2 \in generate_fruit(s1) }

reset(s) ==
  LET s1 == [s EXCEPT !.direction = RIGHT,
                      !.popped_point = None,
                      !.popped_point_1 = None,
                      !.popped_point_2 = None,
                      !.snake = <<START>>,
                      !.apple = None,
                      !.death = FALSE,
                      !.melons = 0,
                      !.apples = 0,
                      !.score = 0,
                      !.time_bonus = 0,
                      !.last_eaten_frame = 0]
  IN { [s2 EXCEPT !.speed = DEFAULT_SPEED,
                  !.speed_frames = SPEED_TO_FRAME_MAPPING[DEFAULT_SPEED],
                  !.current_frame_speed = SPEED_TO_FRAME_MAPPING[DEFAULT_SPEED][1],
                  !.frame_count = 0,
                  !.last_update_before = 0,
                  !.mouse_pressed_button = NoButton,
                  !.stepped = FALSE,
                  !.eaten = "none",
                  !.command = NoButton,
                  !.path = <<START>>,
                  !.last_step_direction = None,
                  !.gaps = <<>>,
                  !.restarted = TRUE] : s2 \in generate_fruit(s1) }

(***************************************************************************)
(* Game logic                                                              *)
(***************************************************************************)
\* mutant: the frames-since-last-step counter is not cleared
rotate_speed_keeps_counter(s) ==
  LET frames == rotate(s.speed_frames) IN
  [s EXCEPT !.speed_frames = frames,
            !.current_frame_speed = frames[1]]

\* mutant: the pattern is rotated by two positions
rotate_speed_twice(s) ==
  LET frames == rotate(rotate(s.speed_frames)) IN
  [s EXCEPT !.speed_frames = frames,
            !.current_frame_speed = frames[1],
            !.last_update_before = 0]

rotate_speed(s) ==
  LET frames == rotate(s.speed_frames) IN
  [s EXCEPT !.speed_frames = frames,
            !.current_frame_speed = frames[1],
            !.last_update_before = 0]

\* the pointer press of this frame, if it falls into a hit box, is latched
check_button_hitboxes(s, click) ==
  IF click # NoButton THEN [s EXCEPT !.mouse_pressed_button = click] ELSE s

\* one branch of the match / if-elif chain: the command is taken unless the
\* snake currently heads the opposite way
\* mutant: the opposite-direction test is missing
steer_unfiltered(d, cmd) ==
  CASE cmd = "up" -> UP
    [] cmd = "down" -> DOWN
    [] cmd = "left" -> LEFT
    [] cmd = "right" -> RIGHT
    [] OTHER -> d

steer(d, cmd) ==
  CASE cmd = "up" -> IF d # DOWN THEN UP ELSE d
    [] cmd = "down" -> IF d # UP THEN DOWN ELSE d
    [] cmd = "left" -> IF d # RIGHT THEN LEFT ELSE d
    [] cmd = "right" -> IF d # LEFT THEN RIGHT ELSE d
    [] OTHER -> d

update_direction(s, key) ==
  IF s.mouse_pressed_button # NoButton
  THEN [s EXCEPT !.direction = steer(s.direction, s.mouse_pressed_button),
                 !.command = s.mouse_pressed_button,
                 !.mouse_pressed_button = NoButton]
  ELSE [s EXCEPT !.direction = steer(s.direction, key),
                 !.command = key]

get_new_snake_head(s) ==
  LET old_head == s.snake[1] IN
  IF COLLISION_WITH_WALLS = FALSE /\ old_head[1] < 0
  THEN Point(WIDTH - 1, old_head[2] + s.direction[2])
  ELSE IF COLLISION_WITH_WALLS = FALSE /\ old_head[1] >= WIDTH
  THEN Point(0, old_head[2] + s.direction[2])
  ELSE IF COLLISION_WITH_WALLS = FALSE /\ old_head[2] < HEIGHT_SCORE
  THEN Point(old_head[1] + s.direction[1], HEIGHT - HEIGHT_CONTROLS - 1)
  ELSE IF COLLISION_WITH_WALLS = FALSE /\ old_head[2] >= HEIGHT - HEIGHT_CONTROLS
  THEN Point(old_head[1] + s.direction[1], HEIGHT_SCORE)
  ELSE Point(old_head[1] + s.direction[1], old_head[2] + s.direction[2])

update_snake(s) ==
  LET grown == appendleft(s.snake, get_new_snake_head(s)) IN
  [s EXCEPT !.snake = pop(grown),
            !.popped_point_2 = s.popped_point_1,
            !.popped_point_1 = s.popped_point,
            !.popped_point = grown[Len(grown)],
            !.path = <<grown[1]>> \o @,
            !.last_step_direction = s.direction]

death_event(s) == [s EXCEPT !.death = TRUE]

check_death(s) ==
  LET head == s.snake[1]
      s1 == IF COLLISION_WITH_WALLS
               /\ (head[1] < 0 \/ head[2] < HEIGHT_SCORE \/ head[1] >= WIDTH
                   \/ head[2] >= HEIGHT - HEIGHT_CONTROLS)
            THEN death_event(s)
            ELSE s
  IN IF Len(s1.snake) # Cardinality(Elems(s1.snake))
     THEN death_event(s1)
     ELSE s1

\* mutant: the bonus is not floored at zero
add_time_bonus_unfloored(s) ==
  [s EXCEPT !.time_bonus =
              @ + min(MAX_SECONDS_PER_POINT * 60 + s.last_eaten_frame
                        - s.frame_count,
                      MAX_TIME_BONUS),
            !.last_eaten_frame = s.frame_count]

add_time_bonus(s) ==
  [s EXCEPT !.time_bonus =
              @ + min(max(MAX_SECONDS_PER_POINT * 60 + s.last_eaten_frame
                            - s.frame_count, 0),
                      MAX_TIME_BONUS),
            !.last_eaten_frame = s.frame_count]

\* mutant: the frame pattern is not replaced by the new tier's pattern
check_melon_keeps_pattern(s) ==
  IF s.snake[1] \in Elems(s.melon)
  THEN LET s1 == add_time_bonus(
                   [s EXCEPT !.speed = SCORE_SPEED[s.melons + s.apples],
                             !.melons = @ + 1,
                             !.score = @ + 3,
                             !.gaps = <<>>,
                             !.eaten = "melon"])
       IN { [s2 EXCEPT !.snake = @ \o <<s2.popped_point, s2.popped_point_1,
                                        s2.popped_point_2>>] :
              s2 \in generate_fruit(s1) }
  ELSE {s}

\* mutant: only two of the three popped segments are appended
check_melon_two_segments(s) ==
  IF s.snake[1] \in Elems(s.melon)
  THEN LET s1 == add_time_bonus(
                   [s EXCEPT !.speed = SCORE_SPEED[s.melons + s.apples],
                             !.melons = @ + 1,
                             !.score = @ + 3,
                             !.gaps = <<>>,
                             !.eaten = "melon"])
       IN { [s2 EXCEPT !.snake = @ \o <<s2.popped_point, s2.popped_point_1>>,
                       !.speed_frames = SPEED_TO_FRAME_MAPPING[s2.speed]] :
              s2 \in generate_fruit(s1) }
  ELSE {s}

check_melon(s) ==
  IF s.snake[1] \in Elems(s.melon)
  THEN LET s1 == add_time_bonus(
                   [s EXCEPT !.speed = SCORE_SPEED[s.melons + s.apples],
                             !.melons = @ + 1,
                             !.score = @ + 3,
                             !.gaps = <<>>,
                             !.eaten = "melon"])
       IN { [s2 EXCEPT !.snake = @ \o <<s2.popped_point, s2.popped_point_1,
                                        s2.popped_point_2>>,
                       !.speed_frames = SPEED_TO_FRAME_MAPPING[s2.speed]] :
              s2 \in generate_fruit(s1) }
  ELSE {s}

\* mutant: the body regrows from the older recent-pop slot
check_apple_appends_older(s) ==
  IF s.snake[1] = s.apple
  THEN generate_fruit(
         [add_time_bonus([s EXCEPT !.apples = @ + 1,
                                   !.score = @ + 1,
                                   !.eaten = "apple"])
            EXCEPT !.snake = @ \o <<s.popped_point_1>>])
  ELSE {s}

\* mutant: the apple path recomputes the speed tier from the new count
check_apple_sets_speed(s) ==
  IF s.snake[1] = s.apple
  THEN generate_fruit(
         [add_time_bonus([s EXCEPT !.apples = @ + 1,
                                   !.score = @ + 1,
                                   !.speed =
                                     IF IsMilestone(s.melons + s.apples + 1)
                                     THEN SCORE_SPEED[s.melons + s.apples + 1]
                                     ELSE @,
                                   !.eaten = "apple"])
            EXCEPT !.snake = @ \o <<s.popped_point>>])
  ELSE {s}

\* mutant: the next fruit is generated before the apple is counted
check_apple_generates_first(s) ==
  IF s.snake[1] = s.apple
  THEN { [add_time_bonus([s2 EXCEPT !.apples = @ + 1,
                                    !.score = @ + 1,
                                    !.eaten = "apple"])
            EXCEPT !.snake = @ \o <<s.popped_point>>] :
           s2 \in generate_fruit(s) }
  ELSE {s}

check_apple(s) ==
  IF s.snake[1] = s.apple
  THEN generate_fruit(
         [add_time_bonus([s EXCEPT !.apples = @ + 1,
                                   !.score = @ + 1,
                                   !.eaten = "apple"])
            EXCEPT !.snake = @ \o <<s.popped_point>>])
  ELSE {s}

check_fruit(s) ==
  IF IsMilestone(s.melons + s.apples)
  THEN check_melon(s)
  ELSE check_apple(s)

\* the last four gaps
LastGaps(g) == IF Len(g) > 4 THEN SubSeq(g, Len(g) - 3, Len(g)) ELSE g

\* mutant: the test of the death flag is missing
update_ignoring_death(s, key, click, restart) ==
  LET s1 == [s EXCEPT !.frame_count = @ + 1,
                      !.last_update_before = @ + 1,
                      !.stepped = FALSE, !.eaten = "none",
                      !.restarted = FALSE, !.command = NoButton,
                      !.restart_signal = "none"]
      s2 == [check_button_hitboxes(s1, click)
               EXCEPT !.restart_signal =
                        IF restart THEN "key"
                        ELSE IF s1.death /\ click = "up" THEN "button"
                        ELSE "none"]
      s3 == update_direction(s2, key)
      after ==
        IF s3.last_update_before = s3.current_frame_speed
        THEN check_fruit(check_death(update_snake(rotate_speed(
               [s3 EXCEPT !.stepped = TRUE,
                          !.gaps = LastGaps(@ \o <<s3.last_update_before>>)]))))
        ELSE {s3}
  IN IF restart
     THEN UNION { reset(t) : t \in after }
     ELSE after

\* Snake.update: one frame
update(s, key, click, restart) ==
  LET s1 == [s EXCEPT !.frame_count = @ + 1,
                      !.last_update_before = @ + 1,
                      !.stepped = FALSE, !.eaten = "none",
                      !.restarted = FALSE, !.command = NoButton,
                      !.restart_signal = "none"]
      s2 == [check_button_hitboxes(s1, click)
               EXCEPT !.restart_signal =
                        IF restart THEN "key"
                        ELSE IF s1.death /\ click = "up" THEN "button"
                        ELSE "none"]
      s3 == update_direction(s2, key)
      after ==
        IF ~s2.death
        THEN IF s3.last_update_before = s3.current_frame_speed
             THEN check_fruit(check_death(update_snake(rotate_speed(
                    [s3 EXCEPT !.stepped = TRUE,
                               !.gaps = LastGaps(@ \o <<s3.last_update_before>>)]))))
             ELSE {s3}
        ELSE IF s2.mouse_pressed_button = "up"
             THEN reset(s2)
             ELSE {s2}
  IN IF restart
     THEN UNION { reset(t) : t \in after }
     ELSE after

\* Snake.draw after the update: draw_snake reads draw_x of every element of
\* the body, which raises on None and ends the process
draw_raises(s) == ~s.death /\ None \in Elems(s.snake)

\* str(): the characters of a natural number, most significant first
DigitChars == <<"0", "1", "2", "3", "4", "5", "6", "7", "8", "9">>

RECURSIVE digits(_)
digits(n) ==
  IF n < 10 THEN <<DigitChars[n + 1]>>
  ELSE digits(n \div 10) \o <<DigitChars[(n % 10) + 1]>>

\* format(n, "0w"): zero padding up to width w, the sign in front
format(n, w) ==
  LET d == digits(IF n < 0 THEN 0 - n ELSE n)
      room == IF n < 0 THEN w - 1 ELSE w
      padded == IF Len(d) < room THEN [i \in 1..(room - Len(d)) |-> "0"] \o d
                ELSE d
  IN IF n < 0 THEN <<"-">> \o padded ELSE padded

\* mutant: the time bonus is left out of the presented score
draw_score_drops_bonus(s) == format(s.score * 100, 4)

\* Snake.draw_score: the text drawn at the top while the snake is alive
draw_score(s) == format(s.score * 100 + s.time_bonus, 4)

\* Snake.draw_death: the total below the rule of the game-over screen
draw_death(s) == format(s.score * 100 + s.time_bonus, 3)

\* Snake.draw: the score text on the screen after the update
draw(s) == IF ~s.death THEN draw_score(s) ELSE draw_death(s)

(***************************************************************************)
(* The state machine                                                       *)
(***************************************************************************)
Adopt(t) ==
  /\ snake' = t.snake
  /\ direction' = t.direction
  /\ popped_point' = t.popped_point
  /\ popped_point_1' = t.popped_point_1
  /\ popped_point_2' = t.popped_point_2
  /\ apple' = t.apple
  /\ melon' = t.melon
  /\ death' = t.death
  /\ melons' = t.melons
  /\ apples' = t.apples
  /\ score' = t.score
  /\ time_bonus' = t.time_bonus
  /\ last_eaten_frame' = t.last_eaten_frame
  /\ speed' = t.speed
  /\ speed_frames' = t.speed_frames
  /\ current_frame_speed' = t.current_frame_speed
  /\ frame_count' = t.frame_count
  /\ last_update_before' = t.last_update_before
  /\ mouse_pressed_button' = t.mouse_pressed_button
  /\ generated' = t.generated
  /\ stepped' = t.stepped
  /\ eaten' = t.eaten
  /\ restarted' = t.restarted
  /\ command' = t.command
  /\ path' = t.path
  /\ last_step_direction' = t.last_step_direction
  /\ gaps' = t.gaps
  /\ restart_signal' = t.restart_signal

\* the fields __init__ has not set before it calls reset()
Blank ==
  [snake |-> <<>>, direction |-> RIGHT, popped_point |-> None,
   popped_point_1 |-> None, popped_point_2 |-> None, apple |-> None,
   melon |-> <<>>, death |-> FALSE, melons |-> 0, apples |-> 0, score |-> 0,
   time_bonus |-> 0, last_eaten_frame |-> 0, speed |-> DEFAULT_SPEED,
   speed_frames |-> <<>>, current_frame_speed |-> 0, frame_count |-> 0,
   last_update_before |-> 0, mouse_pressed_button |-> NoButton,
   generated |-> "none", stepped |-> FALSE, eaten |-> "none",
   restarted |-> TRUE, command |-> NoButton, path |-> <<>>,
   last_step_direction |-> None, gaps |-> <<>>, restart_signal |-> "none"]

Init ==
  \E t \in reset(Blank) :
    /\ snake = t.snake
    /\ direction = t.direction
    /\ popped_point = t.popped_point
    /\ popped_point_1 = t.popped_point_1
    /\ popped_point_2 = t.popped_point_2
    /\ apple = t.apple
    /\ melon = t.melon
    /\ death = t.death
    /\ melons = t.melons
    /\ apples = t.apples
    /\ score = t.score
    /\ time_bonus = t.time_bonus
    /\ last_eaten_frame = t.last_eaten_frame
    /\ speed = t.speed
    /\ speed_frames = t.speed_frames
    /\ current_frame_speed = t.current_frame_speed
    /\ frame_count = t.frame_count
    /\ last_update_before = t.last_update_before
    /\ mouse_pressed_button = t.mouse_pressed_button
    /\ generated = t.generated
    /\ stepped = t.stepped
    /\ eaten = t.eaten
    /\ restarted = t.restarted
    /\ command = t.command
    /\ path = t.path
    /\ last_step_direction = t.last_step_direction
    /\ gaps = t.gaps
    /\ restart_signal = t.restart_signal

\* one frame of the host loop, observed while lo <= frame_count < hi
Frame(lo, hi) ==
  /\ frame_count >= lo
  /\ frame_count < hi
  /\ ~draw_raises(self)
  /\ \E key \in Keys, click \in Clicks, restart \in BOOLEAN :
       \E t \in update(self, key, click, restart) : Adopt(t)

Update == Frame(0, MaxFrame)

Next == Update

Spec == Init /\ [][Next]_vars

(***************************************************************************)
(* A session that has run long without eating.  The snake of length one    *)
(* has shuttled between START and a free neighbour cell for LateCycles     *)
(* rounds of the starting frame pattern (three steps each; a reversal      *)
(* between two steps takes two direction updates on different frames), so  *)
(* the frame pattern is back in its initial rotation and a step has just   *)
(* been taken.                                                             *)
(***************************************************************************)
PatternFrames ==
  LET f == SPEED_TO_FRAME_MAPPING[DEFAULT_SPEED] IN f[1] + f[2] + f[3]

LateStart == LateCycles * PatternFrames

Holds(t) ==
  /\ snake = t.snake
  /\ direction = t.direction
  /\ popped_point = t.popped_point
  /\ popped_point_1 = t.popped_point_1
  /\ popped_point_2 = t.popped_point_2
  /\ apple = t.apple
  /\ melon = t.melon
  /\ death = t.death
  /\ melons = t.melons
  /\ apples = t.apples
  /\ score = t.score
  /\ time_bonus = t.time_bonus
  /\ last_eaten_frame = t.last_eaten_frame
  /\ speed = t.speed
  /\ speed_frames = t.speed_frames
  /\ current_frame_speed = t.current_frame_speed
  /\ frame_count = t.frame_count
  /\ last_update_before = t.last_update_before
  /\ mouse_pressed_button = t.mouse_pressed_button
  /\ generated = t.generated
  /\ stepped = t.stepped
  /\ eaten = t.eaten
  /\ restarted = t.restarted
  /\ command = t.command
  /\ path = t.path
  /\ last_step_direction = t.last_step_direction
  /\ gaps = t.gaps
  /\ restart_signal = t.restart_signal

\* the session in which the snake, never having eaten, has shuttled between
\* START and its neighbour in direction n since the reset that produced t
LateSession(t, n) ==
  LET N == Point(START[1] + n[1], START[2] + n[2])
      even == (LateCycles * 3) % 2 = 0
      here == IF even THEN START ELSE N
      there == IF even THEN N ELSE START
  IN
  [snake |-> <<here>>,
   direction |-> IF even THEN Point(0 - n[1], 0 - n[2]) ELSE n,
   popped_point |-> there,
   popped_point_1 |-> here,
   popped_point_2 |-> there,
   apple |-> t.apple,
   melon |-> t.melon,
   death |-> FALSE,
   melons |-> 0,
   apples |-> 0,
   score |-> 0,
   time_bonus |-> 0,
   last_eaten_frame |-> 0,
   speed |-> DEFAULT_SPEED,
   speed_frames |-> SPEED_TO_FRAME_MAPPING[DEFAULT_SPEED],
   current_frame_speed |-> SPEED_TO_FRAME_MAPPING[DEFAULT_SPEED][1],
   frame_count |-> LateStart,
   last_update_before |-> 0,
   mouse_pressed_button |-> NoButton,
   generated |-> t.generated,
   stepped |-> TRUE,
   eaten |-> "none",
   restarted |-> FALSE,
   command |-> NoButton,
   path |-> [i \in 1..(LateCycles * 3 + 1) |->
               IF i % 2 = 1 THEN here ELSE there],
   last_step_direction |-> IF even THEN Point(0 - n[1], 0 - n[2]) ELSE n,
   gaps |-> SPEED_TO_FRAME_MAPPING[DEFAULT_SPEED],
   restart_signal |-> "none"]

LateSessions ==
  UNION { { LateSession(t, n) :
              n \in { d \in {UP, DOWN, LEFT, RIGHT} :
                        LET N == Point(START[1] + d[1], START[2] + d[2]) IN
                        /\ N[1] >= 0 /\ N[1] < WIDTH
                        /\ N[2] >= HEIGHT_SCORE
                        /\ N[2] < HEIGHT - HEIGHT_CONTROLS
                        /\ N \notin Elems(t.melon) } } :
          t \in reset(Blank) }

InitLate == \E t \in LateSessions : Holds(t)

UpdateLate == Frame(LateStart, LateStart + LateFrames)

NextLate == UpdateLate

SpecLate == InitLate /\ [][NextLate]_vars

(***************************************************************************)
(* A session that has just eaten its first apple.  After the long shuttle  *)
(* the player holds RIGHT for two steps and DOWN for the next two; the     *)
(* sessions kept are those in which the third step ate the melon and the   *)
(* fourth the apple, so that the body has five cells, the recent-pop slots *)
(* are filled and the melon of milestone 2 is on the field.                *)
(***************************************************************************)
\* the sessions left by one update per entry of keys, each with that key held
RECURSIVE Play(_, _)
Play(S, keys) ==
  IF keys = <<>>
  THEN S
  ELSE Play(UNION { update(s, Head(keys), NoButton, FALSE) :
                      s \in { r \in S : ~draw_raises(r) } },
            Tail(keys))

OpeningKeys ==
  LET f == SPEED_TO_FRAME_MAPPING[DEFAULT_SPEED] IN
  [i \in 1..(f[1] + f[2]) |-> "right"] \o [i \in 1..(f[3] + f[1]) |-> "down"]

GrownStart == LateStart + Len(OpeningKeys)

InitGrown ==
  \E t \in Play(LateSessions, OpeningKeys) :
    /\ t.melons = 1
    /\ t.eaten = "apple"
    /\ ~t.death
    /\ Holds(t)

UpdateGrown == Frame(GrownStart, GrownStart + GrownFrames)

NextGrown == UpdateGrown

SpecGrown == InitGrown /\ [][NextGrown]_vars

(***************************************************************************)
(* Vocabulary of the properties                                            *)
(***************************************************************************)
fruit_count == melons + apples

NoDuplicates(q) == Len(q) = Cardinality(Elems(q))

\* the cells of the fruit that check_fruit tests
ActiveFruitCells == IF IsMilestone(fruit_count) THEN Elems(melon) ELSE {apple}

Opposite(d) == Point(0 - d[1], 0 - d[2])

ButtonOf(d) ==
  CASE d = UP -> "up" [] d = DOWN -> "down" [] d = LEFT -> "left"
    [] d = RIGHT -> "right"

TopRow == HEIGHT_SCORE
BottomRow == HEIGHT - HEIGHT_CONTROLS - 1

InPlay(p) ==
  /\ p # None
  /\ p[1] >= 0 /\ p[1] < WIDTH
  /\ p[2] >= TopRow /\ p[2] <= BottomRow

\* the head h is on an edge and d points out of the play area
LeavesBy(h, d) ==
  /\ InPlay(h)
  /\ \/ h[1] = 0 /\ d = LEFT
     \/ h[1] = WIDTH - 1 /\ d = RIGHT
     \/ h[2] = TopRow /\ d = UP
     \/ h[2] = BottomRow /\ d = DOWN

\* the opposite edge cell of the same row or column
OppositeEdge(h, d) ==
  CASE d = LEFT -> Point(WIDTH - 1, h[2])
    [] d = RIGHT -> Point(0, h[2])
    [] d = UP -> Point(h[1], BottomRow)
    [] d = DOWN -> Point(h[1], TopRow)

\* the tier of the highest milestone among ks
TierOf(ks) == SCORE_SPEED[CHOOSE k \in ks : \A j \in ks : j <= k]

(***************************************************************************)
(* C1: whenever the death flag is false, the snake body contains no two    *)
(* equal elements.                                                         *)
(***************************************************************************)
C1_AliveBodyHasNoDuplicates == ~death => NoDuplicates(snake)

(***************************************************************************)
(* C2: after every update the active fruit shares no cell with the snake   *)
(* body, the tail segments regrown in that step included.                  *)
(***************************************************************************)
C2_FruitDisjointFromBody == ActiveFruitCells \cap Elems(snake) = {}

(***************************************************************************)
(* C3: in wrap mode a step taken with the head on an edge cell and the     *)
(* direction pointing out of the play area puts the new head, in that same *)
(* step, on the opposite edge cell of the same row or column.              *)
(***************************************************************************)
C3_WrapInSameStep ==
  [][(stepped' /\ LeavesBy(snake[1], direction'))
       => snake'[1] = OppositeEdge(snake[1], direction')]_vars

C5_DeadUntilReset ==
  [][(death /\ ~restarted')
       => /\ death'
          /\ UNCHANGED <<snake, direction, apple, melon, apples, melons,
                         score, time_bonus, speed>>]_vars

\* an update has run on a dead snake without resetting it
C5_UpdatedWhileDead == death /\ ~stepped /\ frame_count > 0

(***************************************************************************)
(* C6: a step in which the snake dies consumes no fruit.                   *)
(***************************************************************************)
C6_DyingStepEatsNothing == (death /\ stepped) => eaten = "none"

(***************************************************************************)
(* C7: an update without reset changes the length of the body by 0 when no *)
(* fruit is consumed, by +1 when an apple is consumed and by +3 when a     *)
(* melon is consumed; a frame without a step consumes nothing.             *)
(***************************************************************************)
C7_LengthChange ==
  [][~restarted'
       => /\ <<apples' - apples, melons' - melons>>
               \in {<<0, 0>>, <<1, 0>>, <<0, 1>>}
          /\ Len(snake') - Len(snake)
               = (apples' - apples) + 3 * (melons' - melons)
          /\ ~stepped' => (apples' = apples /\ melons' = melons)]_vars

\* a melon has just been consumed and the body has grown
C7_GrownByMelon == eaten = "melon" /\ Len(snake) >= 4

(***************************************************************************)
(* C8: one direction update never turns the snake to the exact opposite of *)
(* the direction held before it; a reversal command leaves the direction   *)
(* unchanged.                                                              *)
(***************************************************************************)
C8_NoReversal ==
  [][~restarted'
       => /\ direction' # Opposite(direction)
          /\ command' = ButtonOf(Opposite(direction))
               => direction' = direction]_vars

\* a reversal command has just been given and ignored
C8_ReversalIgnored ==
  /\ ~restarted
  /\ ~death
  /\ command = ButtonOf(Opposite(direction))

(***************************************************************************)
(* C9: the fruit last generated is a melon exactly when apples+melons is a *)
(* key of the milestone table, and an apple otherwise; so the kind the     *)
(* fruit check tests is the kind that was generated.                       *)
(***************************************************************************)
C9_FruitKindMatchesCount ==
  /\ generated \in {"apple", "melon"}
  /\ generated = "melon" <=> IsMilestone(fruit_count)
  /\ IsMilestone(fruit_count) => Len(melon) = 4
  /\ ~IsMilestone(fruit_count) => apple # None

\* an apple has been eaten and the melon of milestone 2 generated
C9_MelonAfterApple == generated = "melon" /\ fruit_count = 2

(***************************************************************************)
(* C10: on each fruit consumption the time bonus grows by exactly          *)
(* clamp(MAX_SECONDS_PER_POINT*60 - (frame_count - last_eaten_frame), 0,   *)
(* MAX_TIME_BONUS) and last_eaten_frame becomes frame_count; otherwise     *)
(* both are unchanged.  Hence the bonus is never negative, never decreases *)
(* within a session and no increment exceeds MAX_TIME_BONUS.               *)
(***************************************************************************)
Clamp(v, lo, hi) == IF v < lo THEN lo ELSE IF v > hi THEN hi ELSE v

C10_TimeBonus ==
  [][~restarted'
       => /\ IF fruit_count' # fruit_count
             THEN /\ time_bonus' - time_bonus
                       = Clamp(MAX_SECONDS_PER_POINT * 60
                                 - (frame_count' - last_eaten_frame),
                               0, MAX_TIME_BONUS)
                  /\ last_eaten_frame' = frame_count'
             ELSE UNCHANGED <<time_bonus, last_eaten_frame>>
          /\ time_bonus' >= time_bonus
          /\ time_bonus' - time_bonus <= MAX_TIME_BONUS
          /\ time_bonus' >= 0]_vars

\* a fruit has just been eaten too late to earn any bonus
C10_LateFruitEarnsNothing ==
  /\ eaten # "none"
  /\ frame_count > MAX_SECONDS_PER_POINT * 60
  /\ last_eaten_frame = frame_count
  /\ time_bonus = 0

(***************************************************************************)
(* C11: a step that ends with the head on the active apple raises the      *)
(* apples count and the score by one, leaves the melons count, makes the   *)
(* body the moved body with the cell the tail just left re-appended, and   *)
(* places a new fruit off the grown body.                                  *)
(***************************************************************************)
C11_AppleConsumption ==
  [][(stepped' /\ ~IsMilestone(fruit_count) /\ snake'[1] = apple)
       => /\ apples' = apples + 1
          /\ score' = score + 1
          /\ melons' = melons
          /\ snake' = <<snake'[1]>> \o snake
          /\ ActiveFruitCells' \cap Elems(snake') = {}]_vars

\* an apple has been eaten after the opening
C11_AppleEaten == eaten = "apple" /\ frame_count > GrownStart

(***************************************************************************)
(* C12: a step that ends with the head on a cell of the active melon       *)
(* raises the melons count by one and the score by three, leaves the       *)
(* apples count, and grows the body by the three cells the tail left most  *)
(* recently, latest first, so that the grown body is the path of the head  *)
(* over its last steps.                                                    *)
(***************************************************************************)
C12_MelonGrowsAlongPath ==
  [][(stepped' /\ IsMilestone(fruit_count) /\ snake'[1] \in Elems(melon))
       => /\ melons' = melons + 1
          /\ score' = score + 3
          /\ apples' = apples
          /\ Len(snake') = Len(snake) + 3
          /\ Len(path') >= Len(snake')
          /\ snake' = SubSeq(path', 1, Len(snake'))]_vars

(***************************************************************************)
(* C13: after an update with the restart key active, and after an update   *)
(* of a dead session with the pointer on the restart button, the session   *)
(* is in its initial state.                                                *)
(***************************************************************************)
C13_RestartGivesInitialSession ==
  restart_signal # "none"
    => /\ snake = <<START>>
       /\ direction = RIGHT
       /\ death = FALSE
       /\ apples = 0 /\ melons = 0 /\ score = 0
       /\ time_bonus = 0 /\ last_eaten_frame = 0
       /\ frame_count = 0 /\ last_update_before = 0
       /\ speed = DEFAULT_SPEED
       /\ speed_frames = SPEED_TO_FRAME_MAPPING[DEFAULT_SPEED]
       /\ current_frame_speed = SPEED_TO_FRAME_MAPPING[DEFAULT_SPEED][1]
       /\ popped_point = None /\ popped_point_1 = None /\ popped_point_2 = None
       /\ mouse_pressed_button = NoButton
       /\ apple = None
       /\ generated = "melon"
       /\ Elems(melon) \cap Elems(snake) = {}

\* a dead session has been restarted with the pointer button
C13_RestartedByButton == restart_signal = "button"

(***************************************************************************)
(* C14: every placed fruit lies inside the play area; the four cells of a  *)
(* melon form a 2x2 block.                                                 *)
(***************************************************************************)
C14_FruitInsidePlayArea ==
  /\ apple # None => InPlay(apple)
  /\ Len(melon) = 4
  /\ \A i \in 1..4 : InPlay(melon[i])
  /\ melon = melon_points(melon[1][1], melon[1][2])

\* an apple has been placed after a melon was eaten
C14_ApplePlacedAfterMelon == generated = "apple" /\ eaten = "melon"

(***************************************************************************)
(* C15: within a session the speed tier starts at DEFAULT_SPEED and every  *)
(* change moves it to a strictly smaller value of the milestone table; the *)
(* stored frame pattern is always a rotation of the pattern of the current *)
(* speed tier.                                                             *)
(***************************************************************************)
IsRotation(q, r) == q \in {r, rotate(r), rotate(rotate(r))}

C15_SpeedOnlyFalls ==
  /\ [](/\ IsRotation(speed_frames, SPEED_TO_FRAME_MAPPING[speed])
        /\ restarted => speed = DEFAULT_SPEED)
  /\ [][~restarted'
          => \/ speed' = speed
             \/ /\ speed' < speed
                /\ \E k \in DOMAIN SCORE_SPEED : speed' = SCORE_SPEED[k]]_vars

\* the second melon has just lowered the speed tier again
C15_SecondTierChange == eaten = "melon" /\ speed = SCORE_SPEED[2]

(***************************************************************************)
(* C16: the direction applied in a step is never the exact opposite of the *)
(* direction applied in the previous step.                                 *)
(***************************************************************************)
C16_NoReversalBetweenSteps ==
  [][(stepped' /\ last_step_direction # None)
       => direction' # Opposite(last_step_direction)]_vars

(***************************************************************************)
(* C17: in wrap mode the snake dies only in a step whose new head lands on *)
(* a cell that another segment of the body occupies after the tail has     *)
(* been popped.                                                            *)
(***************************************************************************)
C17_DeathOnlyByHeadCollision ==
  [][(~death /\ death')
       => /\ stepped'
          /\ snake'[1] \in Elems(SubSeq(snake, 1, Len(snake) - 1))]_vars

(***************************************************************************)
(* C18: every element of the snake body is a grid coordinate; growth never *)
(* appends an empty recent-pop slot.                                       *)
(***************************************************************************)
C18_BodyHoldsCoordinates == \A i \in 1..Len(snake) : snake[i] # None

(***************************************************************************)
(* C19: the number of frames between two consecutive steps is an entry of  *)
(* the frame pattern of the speed tier in force during that interval.      *)
(***************************************************************************)
C19_GapFromPatternInForce ==
  [][stepped'
       => last_update_before + 1
            \in Elems(SPEED_TO_FRAME_MAPPING[speed])]_vars

(***************************************************************************)
(* C20: the frame pattern is rotated by one position on every step and on  *)
(* no other occasion, so any three consecutive gaps between steps of a run *)
(* without a change of speed tier (from reset, or from the step after the  *)
(* one that changed the tier) are a permutation of the tier's pattern.     *)
(***************************************************************************)
Count(q, v) == Cardinality({i \in 1..Len(q) : q[i] = v})

IsPermutation(q, r) ==
  /\ Len(q) = Len(r)
  /\ \A v \in Elems(q) \cup Elems(r) : Count(q, v) = Count(r, v)

\* the gaps between the steps that followed the last change of tier; the
\* first recorded gap after a melon starts at the step that ate it
RunGaps == IF melons = 0 \/ gaps = <<>> THEN gaps ELSE Tail(gaps)

C20_GapsFollowPattern ==
  /\ [](\A i \in 1..Len(RunGaps) :
          i + 2 <= Len(RunGaps)
            => IsPermutation(SubSeq(RunGaps, i, i + 2),
                             SPEED_TO_FRAME_MAPPING[speed]))
  /\ [][(~restarted' /\ speed' = speed)
          => speed_frames' = IF stepped' THEN rotate(speed_frames)
                             ELSE speed_frames]_vars

\* three steps have followed the step after a change of tier
C20_ThreeGapsInNewTier == melons > 0 /\ Len(RunGaps) = 3

(***************************************************************************)
(* C21: while the snake is alive the frames-since-last-step counter is,    *)
(* after every update, strictly less than the interval waited for, and     *)
(* that interval is at most 8 frames; so the next step always comes.       *)
(***************************************************************************)
C21_CadenceNeverStalls ==
  ~death => /\ last_update_before < current_frame_speed
            /\ current_frame_speed <= 8

\* the last frame before the step of the interval that follows a change of
\* tier, the waited interval being one the new tier's pattern does not hold
C21_WaitingAfterTierChange ==
  /\ ~death
  /\ speed # DEFAULT_SPEED
  /\ current_frame_speed \notin Elems(SPEED_TO_FRAME_MAPPING[speed])
  /\ last_update_before = current_frame_speed - 1

(***************************************************************************)
(* C22: score = apples + 3 * melons, the body has 1 + score elements, and  *)
(* the score text on the screen reads score * 100 + time_bonus.            *)
(***************************************************************************)
RECURSIVE NumberOf(_)
NumberOf(text) ==
  IF text = <<>> THEN 0
  ELSE IF Head(text) = "-" THEN 0 - NumberOf(Tail(text))
  ELSE NumberOf(SubSeq(text, 1, Len(text) - 1)) * 10
         + (CHOOSE v \in 0..9 : DigitChars[v + 1] = text[Len(text)])

C22_ScoreAccounting ==
  /\ score = apples + 3 * melons
  /\ Len(snake) = 1 + score
  /\ NumberOf(draw(self)) = score * 100 + time_bonus

\* a dead session that ate two melons and an apple and holds a time bonus
C22_DeadWithBonus == death /\ melons = 2 /\ apples >= 1 /\ time_bonus > 0

====
